---- MODULE Spec2Model ----
(***************************************************************************)
(* Model of the mbedTLS transport of the STM32U5 reference integration     *)
(* (mbedtls_transport.c): the connection context, connect with its         *)
(* handshake loop, the I/O adapter callbacks, steady-state send/recv and   *)
(* disconnect.  The socket interface and the TLS engine are external: each *)
(* of their answers is a nondeterministic choice.                          *)
(***************************************************************************)
EXTENDS Integers, Sequences, FiniteSets, TLC

(* ------------------------------ bounds --------------------------------- *)

\* Handles the socket interface can hand out before socket() only fails.
MaxSockets == 2

\* Handshake-step invocations counted exactly; the counters saturate here.
MaxHandshakeSteps == 3

\* Largest byte count a single transfer reports.
MaxBytes == 1

(* --------------------------- program constants ------------------------- *)

NULL == 0

SOCK_OK == 0

MBEDTLS_ERR_SSL_WANT_READ == -26880

MBEDTLS_ERR_SSL_WANT_WRITE == -26752

MBEDTLS_ERR_SSL_TIMEOUT == -26624

MBEDTLS_ERR_NET_CONN_RESET == -80

MBEDTLS_ERR_NET_SEND_FAILED == -78

MBEDTLS_ERR_NET_RECV_FAILED == -76

\* Results of the engine that are not produced by the I/O adapter.
MBEDTLS_ERR_SSL_BAD_INPUT_DATA == -28928

MBEDTLS_ERR_SSL_FATAL_ALERT_MESSAGE == -30592

TLS_TRANSPORT_SUCCESS == "Success"

TLS_TRANSPORT_INVALID_PARAMETER == "InvalidParameter"

TLS_TRANSPORT_INSUFFICIENT_MEMORY == "InsufficientMemory"

TLS_TRANSPORT_INVALID_CREDENTIALS == "InvalidCredentials"

TLS_TRANSPORT_HANDSHAKE_FAILED == "HandshakeFailed"

TLS_TRANSPORT_INTERNAL_ERROR == "InternalError"

TLS_TRANSPORT_CONNECT_FAILURE == "ConnectFailure"

\* The call has not returned yet (it is inside the handshake loop).
Pending == "Pending"

\* Whether the build defines MBEDTLS_SSL_MAX_FRAGMENT_LENGTH.
MBEDTLS_SSL_MAX_FRAGMENT_LENGTH == TRUE

(* ------------------------------ domains -------------------------------- *)

\* The connection contexts in use.
Contexts == {1}

Handles == 1..MaxSockets

\* errno values the socket layer may leave behind a failed send/recv.
Errnos == {"EINTR", "EAGAIN", "EWOULDBLOCK", "EPIPE", "ECONNRESET", "EIO"}

\* What the socket interface's send/recv answers: a byte count, or a negative
\* value with errno set.
SockResults ==
    [ret : 0..MaxBytes, errno : {"none"}] \cup [ret : {-1}, errno : Errnos]

\* What setsockopt and connect_name answer.
SockStatus == {SOCK_OK, -1}

\* NetworkCredentials_t as the code reads it: which pointers are non-NULL.
\* isNull stands for a NULL pNetworkCredentials.
CredentialSets ==
    [isNull : {FALSE}, pRootCa : BOOLEAN, pClientCert : BOOLEAN,
     pPrivateKey : BOOLEAN, pAlpnProtos : BOOLEAN, disableSni : BOOLEAN]

NullCredentials ==
    [isNull |-> TRUE, pRootCa |-> FALSE, pClientCert |-> FALSE,
     pPrivateKey |-> FALSE, pAlpnProtos |-> FALSE, disableSni |-> FALSE]

\* Credential arguments tried: a NULL pointer, sets without a trust anchor,
\* and every set with one.
CredentialArgs ==
    {NullCredentials}
    \cup {cr \in CredentialSets : cr.pRootCa \/ (~cr.pAlpnProtos /\ ~cr.disableSni)}

\* pHostName: present or NULL.
HostArgs == BOOLEAN

EngineFields == {"cfg", "ssl", "ca", "crt", "pk", "ent", "drbg"}

\* ZeroEngine without the memset: the structures hold whatever the heap held.
ZeroEngine_NotCleared ==
    [cfg |-> "uninit", ssl |-> "uninit", ca |-> "uninit", crt |-> "uninit",
     pk |-> "uninit", ent |-> "uninit", drbg |-> "uninit", authmode |-> "unset"]

\* The mbedTLS structures of a TLSContext_t after memset( 0 ).  authmode is
\* the mode mbedtls_ssl_conf_authmode last gave to xSslConfig: "unset" until
\* the code sets one.
ZeroEngine ==
    [cfg |-> "zero", ssl |-> "zero", ca |-> "zero", crt |-> "zero",
     pk |-> "zero", ent |-> "zero", drbg |-> "zero", authmode |-> "unset"]

\* An entry of a call's log: the operation invoked, whether it succeeded, and
\* the socket handle the context held when it was invoked.
Ev(op, ok, h) == [op |-> op, ok |-> ok, h |-> h]

Min(S) == CHOOSE x \in S : \A y \in S : x <= y

Inc(n) == IF n < MaxHandshakeSteps THEN n + 1 ELSE n

(* ------------------------------- state --------------------------------- *)

VARIABLES
    pxSocketContext,   \* per context: the socket handle, or NULL
    eng,               \* per context: the state of each mbedTLS structure
    pc,                \* per context: "idle", or "handshake" inside connect
    hsCalls,           \* per context: handshake steps invoked by this connect
    hsRetries,         \* per context: of those, how many answered want-read/write
    sockState,         \* per handle: "free", "open", "closed", "closedTwice"
    sockOpener,        \* per handle: the context whose connect opened it, or 0
    threadingAlt,      \* the process-wide mutex hooks are installed
    call               \* the most recent step of an API call, as observed

vars ==
    <<pxSocketContext, eng, pc, hsCalls, hsRetries, sockState, sockOpener,
      threadingAlt, call>>

NoCall ==
    [ctx |-> 0, op |-> "none", host |-> FALSE, creds |-> NullCredentials,
     prevSock |-> NULL, prevEng |-> ZeroEngine, opened |-> NULL, log |-> <<>>,
     status |-> Pending, hsCalls |-> 0, hsRetries |-> 0, mbedtlsError |-> 0,
     io |-> "none", sockRet |-> 0, sockErrno |-> "none", adapterRet |-> 0,
     tlsStatus |-> 0, ret |-> 0, ioSock |-> NULL, prevDisconnect |-> FALSE,
     pxSocketInterface |-> TRUE, pxTLSContext |-> "none", sockCalls |-> <<>>]

\* mbedtls_transport_allocate: a zeroed context that holds no socket.
Init ==
    /\ pxSocketContext = [c \in Contexts |-> NULL]
    /\ eng = [c \in Contexts |-> ZeroEngine]
    /\ pc = [c \in Contexts |-> "idle"]
    /\ hsCalls = [c \in Contexts |-> 0]
    /\ hsRetries = [c \in Contexts |-> 0]
    /\ sockState = [h \in Handles |-> "free"]
    /\ sockOpener = [h \in Handles |-> 0]
    /\ threadingAlt = FALSE
    /\ call = NoCall

(* -------------------------- engine structures -------------------------- *)

tlsContextInit(e) ==
    [e EXCEPT !.cfg = "init", !.ca = "init", !.pk = "init", !.crt = "init",
              !.ssl = "init", !.authmode = "unset"]

\* tlsContextFree leaving the session structure as it was.
tlsContextFree_KeepsSession(e) ==
    [f \in DOMAIN e |->
        IF f = "ssl" THEN e[f]
        ELSE IF f \in EngineFields THEN "freed" ELSE "unset"]

tlsContextFree(e) ==
    [f \in DOMAIN e |-> IF f \in EngineFields THEN "freed" ELSE "unset"]

(* ---------------------------- I/O adapter ------------------------------ *)

\* mbedtls_ssl_send with EPIPE among the retry cases.
mbedtls_ssl_send_PipeAsRetry(lReturnValue, errno) ==
    IF lReturnValue < 0
    THEN CASE errno \in {"EAGAIN", "EINTR", "EWOULDBLOCK", "EPIPE"} ->
                  MBEDTLS_ERR_SSL_WANT_WRITE
           [] errno \in {"ECONNRESET"} -> MBEDTLS_ERR_NET_CONN_RESET
           [] OTHER -> MBEDTLS_ERR_NET_SEND_FAILED
    ELSE lReturnValue

mbedtls_ssl_send(lReturnValue, errno) ==
    IF lReturnValue < 0
    THEN CASE errno \in {"EAGAIN", "EINTR", "EWOULDBLOCK"} ->
                  MBEDTLS_ERR_SSL_WANT_WRITE
           [] errno \in {"EPIPE", "ECONNRESET"} -> MBEDTLS_ERR_NET_CONN_RESET
           [] OTHER -> MBEDTLS_ERR_NET_SEND_FAILED
    ELSE lReturnValue

\* mbedtls_ssl_recv with the EWOULDBLOCK case missing.
mbedtls_ssl_recv_WouldBlockFatal(lReturnValue, errno) ==
    IF lReturnValue < 0
    THEN CASE errno \in {"EINTR"} -> MBEDTLS_ERR_SSL_WANT_READ
           [] errno \in {"EPIPE", "ECONNRESET"} -> MBEDTLS_ERR_NET_CONN_RESET
           [] OTHER -> MBEDTLS_ERR_NET_RECV_FAILED
    ELSE lReturnValue

mbedtls_ssl_recv(lReturnValue, errno) ==
    IF lReturnValue < 0
    THEN CASE errno \in {"EAGAIN", "EINTR", "EWOULDBLOCK"} ->
                  MBEDTLS_ERR_SSL_WANT_READ
           [] errno \in {"EPIPE", "ECONNRESET"} -> MBEDTLS_ERR_NET_CONN_RESET
           [] OTHER -> MBEDTLS_ERR_NET_RECV_FAILED
    ELSE lReturnValue

\* adapterForward calling the socket again when the call was interrupted.
adapterForward_RetriesInterrupted(io, h, r) ==
    LET op == IF io = "send" THEN "sock_send" ELSE "sock_recv"
    IN  IF r.errno = "EINTR"
        THEN <<Ev(op, FALSE, h), Ev(op, FALSE, h)>>
        ELSE <<Ev(op, r.ret >= 0, h)>>

\* The calls of the socket interface one invocation of an adapter callback
\* makes, given the handle h the context holds and the answer r of the socket:
\* pxSock->send or pxSock->recv on pxSocketContext.
adapterForward(io, h, r) ==
    <<Ev(IF io = "send" THEN "sock_send" ELSE "sock_recv", r.ret >= 0, h)>>

\* The callback bound by mbedtls_ssl_set_bio for the direction io.
Adapter(io, r) ==
    IF io = "send" THEN mbedtls_ssl_send(r.ret, r.errno)
    ELSE mbedtls_ssl_recv(r.ret, r.errno)

(* ------------------------- connect: the stages ------------------------- *)
(* A stage maps the locals and the context fields of one running call, the *)
(* record st, to the set of records the stage can leave behind: one per    *)
(* answer of the socket interface or of the engine.                        *)
(*   st.sock, st.eng     pxSocketContext and the mbedTLS structures        *)
(*   st.pool, st.opener  the socket interface's handles                    *)
(*   st.alt              the process-wide mutex hooks                      *)
(*   st.status, st.err   returnStatus and mbedtlsError                     *)
(*   st.opened           the handle socket() returned in this call         *)
(*   st.log              the collaborator operations invoked, in order     *)

Logged(st, op, ok) == [st EXCEPT !.log = Append(@, Ev(op, ok, st.sock))]

\* The two NULL checks at the top of mbedtls_transport_connect.
connectParamCheck(host, creds) ==
    IF (~host) \/ creds.isNull
    THEN TLS_TRANSPORT_INVALID_PARAMETER
    ELSE IF ~creds.pRootCa
         THEN TLS_TRANSPORT_INVALID_PARAMETER
         ELSE TLS_TRANSPORT_SUCCESS

\* connectCloseOld leaving the socket the context holds as it is.
\* pxSocketInterface->close( h ) as the socket layer sees it: an open handle
\* becomes closed, and a close of a handle that is not open is recorded.
sockClose(pool, h) ==
    [pool EXCEPT ![h] = IF @ = "open" THEN "closed" ELSE "closedTwice"]

connectCloseOld_Skips(st) == st

\* "Disconnect socket if has previously been connected".
connectCloseOld(st) ==
    IF st.sock # NULL
    THEN [Logged(st, "close", TRUE) EXCEPT
              !.pool = sockClose(st.pool, st.sock), !.sock = NULL]
    ELSE st

\* What socket() can return: NULL, or a handle that was never handed out.
SocketAnswers(pool) ==
    {NULL} \cup
    (IF \E h \in Handles : pool[h] = "free"
     THEN {Min({h \in Handles : pool[h] = "free"})}
     ELSE {})

\* "Allocate a new socket".
connectSocket(c, st) ==
    { IF h = NULL
      THEN [Logged(st, "socket", FALSE) EXCEPT
                !.sock = NULL, !.status = TLS_TRANSPORT_INTERNAL_ERROR]
      ELSE [Logged(st, "socket", TRUE) EXCEPT
                !.sock = h, !.opened = h,
                !.pool = [st.pool EXCEPT ![h] = "open"],
                !.opener = [st.opener EXCEPT ![h] = c]]
      : h \in SocketAnswers(st.pool) }

\* socketError |= x, for the values the socket interface answers here.
BitOr(a, b) == IF a = 0 THEN b ELSE IF b = 0 THEN a ELSE -1

\* "Set send and receive timeout parameters".
connectTimeouts(st) ==
    IF st.status = TLS_TRANSPORT_SUCCESS
    THEN { LET socketError == BitOr(BitOr(0, r1), r2)
               s1 == Logged(Logged(st, "setsockopt_rcvtimeo", r1 = SOCK_OK),
                            "setsockopt_sndtimeo", r2 = SOCK_OK)
           IN  IF socketError # SOCK_OK
               THEN [s1 EXCEPT !.status = TLS_TRANSPORT_INVALID_PARAMETER]
               ELSE s1
           : r1 \in SockStatus, r2 \in SockStatus }
    ELSE {st}

\* "Establish a TCP connection with the server".
connectName(st) ==
    IF st.status = TLS_TRANSPORT_SUCCESS
    THEN { IF socketError # SOCK_OK
           THEN [Logged(st, "connect_name", FALSE) EXCEPT
                     !.status = TLS_TRANSPORT_CONNECT_FAILURE]
           ELSE Logged(st, "connect_name", TRUE)
           : socketError \in SockStatus }
    ELSE {st}

initMbedtls(st) ==
    LET s0 == [Logged(st, "threading_set_alt", TRUE) EXCEPT
                   !.alt = TRUE, !.eng.ent = "init", !.eng.drbg = "init"]
    IN  { IF mbedtlsError # 0
          THEN [Logged(s0, "ctr_drbg_seed", FALSE) EXCEPT
                    !.status = TLS_TRANSPORT_INTERNAL_ERROR]
          ELSE [Logged(s0, "ctr_drbg_seed", TRUE) EXCEPT
                    !.eng.ent = "live", !.eng.drbg = "live"]
          : mbedtlsError \in {0, -1} }

\* connectInitMbedtls without the test of returnStatus.
connectInitMbedtls_Ungated(st) == initMbedtls(st)

\* "Initialize mbedtls".
connectInitMbedtls(st) ==
    IF st.status = TLS_TRANSPORT_SUCCESS THEN initMbedtls(st) ELSE {st}

\* setRootCa installing the chain whether or not the certificate was parsed.
setRootCa_InstallsUnparsed(st) ==
    { IF mbedtlsError # 0
      THEN [Logged(Logged(st, "x509_crt_parse_ca", FALSE), "conf_ca_chain", TRUE)
                EXCEPT !.err = mbedtlsError]
      ELSE [Logged(Logged(st, "x509_crt_parse_ca", TRUE), "conf_ca_chain", TRUE)
                EXCEPT !.err = 0, !.eng.ca = "live"]
      : mbedtlsError \in {0, -1} }

setRootCa(st) ==
    { IF mbedtlsError # 0
      THEN [Logged(st, "x509_crt_parse_ca", FALSE) EXCEPT !.err = mbedtlsError]
      ELSE [Logged(Logged(st, "x509_crt_parse_ca", TRUE), "conf_ca_chain", TRUE)
                EXCEPT !.err = 0, !.eng.ca = "live"]
      : mbedtlsError \in {0, -1} }

setClientCertificate(st) ==
    { IF mbedtlsError # 0
      THEN [Logged(st, "x509_crt_parse_client", FALSE) EXCEPT !.err = mbedtlsError]
      ELSE [Logged(st, "x509_crt_parse_client", TRUE) EXCEPT
                !.err = 0, !.eng.crt = "live"]
      : mbedtlsError \in {0, -1} }

setPrivateKey(st) ==
    { IF mbedtlsError # 0
      THEN [Logged(st, "pk_parse_key", FALSE) EXCEPT !.err = mbedtlsError]
      ELSE [Logged(st, "pk_parse_key", TRUE) EXCEPT !.err = 0, !.eng.pk = "live"]
      : mbedtlsError \in {0, -1} }

confOwnCert(st) ==
    { [Logged(st, "conf_own_cert", mbedtlsError = 0) EXCEPT !.err = mbedtlsError]
      : mbedtlsError \in {0, -1} }

\* setCredentials configuring the client identity when either half is given.
setCredentials_EitherPresent(st, creds) ==
    LET s0 == [Logged(Logged(Logged(st, "conf_authmode_none", TRUE),
                             "conf_rng", TRUE), "conf_cert_profile", TRUE)
                   EXCEPT !.eng.authmode = "none"]
        S1 == setRootCa(s0)
        S2 == UNION { IF s.err = 0 THEN setClientCertificate(s) ELSE {s} : s \in S1 }
        S3 == UNION { IF s.err = 0 THEN setPrivateKey(s) ELSE {s} : s \in S2 }
        S4 == UNION { IF s.err = 0 THEN confOwnCert(s) ELSE {s} : s \in S3 }
    IN  IF creds.pClientCert \/ creds.pPrivateKey THEN S4 ELSE S1

setCredentials(st, creds) ==
    LET s0 == [Logged(Logged(Logged(st, "conf_authmode_none", TRUE),
                             "conf_rng", TRUE), "conf_cert_profile", TRUE)
                   EXCEPT !.eng.authmode = "none"]
        S1 == setRootCa(s0)
        S2 == UNION { IF s.err = 0 THEN setClientCertificate(s) ELSE {s} : s \in S1 }
        S3 == UNION { IF s.err = 0 THEN setPrivateKey(s) ELSE {s} : s \in S2 }
        S4 == UNION { IF s.err = 0 THEN confOwnCert(s) ELSE {s} : s \in S3 }
    IN  IF creds.pClientCert /\ creds.pPrivateKey THEN S4 ELSE S1

\* OptionalSetting with a failure of the setting failing the connect.
OptionalSetting_FailureFatal(S, applies, op) ==
    IF applies
    THEN { IF ok
           THEN Logged(s, op, ok)
           ELSE [Logged(s, op, ok) EXCEPT !.status = TLS_TRANSPORT_INTERNAL_ERROR]
           : s \in S, ok \in BOOLEAN }
    ELSE S

\* One advisory setting: its failure is logged and changes nothing else.
OptionalSetting(S, applies, op) ==
    IF applies
    THEN { Logged(s, op, ok) : s \in S, ok \in BOOLEAN }
    ELSE S

setOptionalConfigurations(st, creds) ==
    OptionalSetting(
        OptionalSetting(
            OptionalSetting({st}, creds.pAlpnProtos, "conf_alpn_protocols"),
            ~creds.disableSni, "set_hostname"),
        MBEDTLS_SSL_MAX_FRAGMENT_LENGTH, "conf_max_frag_len")

tlsSetup(st, creds) ==
    LET s0 == [Logged(st, "tlsContextInit", TRUE) EXCEPT
                   !.eng = tlsContextInit(st.eng)]
        defaultsFailed == [Logged(s0, "ssl_config_defaults", FALSE) EXCEPT
                               !.status = TLS_TRANSPORT_INSUFFICIENT_MEMORY]
        defaultsOk == [Logged(s0, "ssl_config_defaults", TRUE) EXCEPT
                           !.eng.cfg = "live"]
    IN  {defaultsFailed}
        \cup UNION { IF s.err # 0
                     THEN {[s EXCEPT !.status = TLS_TRANSPORT_INVALID_CREDENTIALS]}
                     ELSE setOptionalConfigurations(s, creds)
                     : s \in setCredentials(defaultsOk, creds) }

\* connectTlsSetup going on to the handshake without tlsSetup.
connectTlsSetup_Skips(st, creds) == {st}

\* "Initialize TLS contexts and set credentials".
connectTlsSetup(st, creds) ==
    IF st.status = TLS_TRANSPORT_SUCCESS THEN tlsSetup(st, creds) ELSE {st}

\* tlsHandshake up to its loop: mbedtls_ssl_setup and mbedtls_ssl_set_bio.
tlsHandshakeSetup(st) ==
    { IF mbedtlsError # 0
      THEN [Logged(st, "ssl_setup", FALSE) EXCEPT
                !.status = TLS_TRANSPORT_INTERNAL_ERROR]
      ELSE [Logged(Logged(st, "ssl_setup", TRUE), "ssl_set_bio", TRUE) EXCEPT
                !.eng.ssl = "setup"]
      : mbedtlsError \in {0, -1} }

\* "Perform TLS handshake".
connectTlsHandshake(st) ==
    IF st.status = TLS_TRANSPORT_SUCCESS THEN tlsHandshakeSetup(st) ELSE {st}

\* connectCleanup with the close of the socket left out.
connectCleanup_KeepsSocket(st) ==
    IF st.status # TLS_TRANSPORT_SUCCESS
    THEN [Logged(st, "tlsContextFree", TRUE) EXCEPT !.eng = tlsContextFree(st.eng)]
    ELSE st

\* connectCleanup clearing the handle of the new socket without closing it.
connectCleanup_DropsHandle(st) ==
    IF st.status # TLS_TRANSPORT_SUCCESS
    THEN [Logged(st, "tlsContextFree", TRUE) EXCEPT
              !.eng = tlsContextFree(st.eng), !.sock = NULL]
    ELSE st

\* connectCleanup closing the new socket without clearing its handle.
connectCleanup_KeepsHandle(st) ==
    IF st.status # TLS_TRANSPORT_SUCCESS
    THEN LET s0 == [Logged(st, "tlsContextFree", TRUE) EXCEPT
                        !.eng = tlsContextFree(st.eng)]
         IN  IF s0.sock # NULL
             THEN [Logged(s0, "close", TRUE) EXCEPT
                       !.pool = sockClose(s0.pool, s0.sock)]
             ELSE s0
    ELSE st

\* "Clean up on failure".
connectCleanup(st) ==
    IF st.status # TLS_TRANSPORT_SUCCESS
    THEN LET s0 == [Logged(st, "tlsContextFree", TRUE) EXCEPT
                        !.eng = tlsContextFree(st.eng)]
         IN  IF s0.sock # NULL
             THEN [Logged(s0, "close", TRUE) EXCEPT
                       !.pool = sockClose(s0.pool, s0.sock),
                       !.sock = NULL]
             ELSE s0
    ELSE st

\* mbedtls_transport_connect from its first statement to the handshake loop.
connectBody(c, st, host, creds) ==
    LET s1 == [st EXCEPT !.status = connectParamCheck(host, creds)]
        S3 == connectSocket(c, connectCloseOld(s1))
        S4 == UNION { connectTimeouts(s) : s \in S3 }
        S5 == UNION { connectName(s) : s \in S4 }
        S6 == UNION { connectInitMbedtls(s) : s \in S5 }
        S7 == UNION { connectTlsSetup(s, creds) : s \in S6 }
    IN  UNION { connectTlsHandshake(s) : s \in S7 }

(* ---------------------- the handshake loop's parts --------------------- *)

\* tlsHandshakeLoops resubmitting on want-read only.
tlsHandshakeLoops_ReadOnly(mbedtlsError) ==
    mbedtlsError = MBEDTLS_ERR_SSL_WANT_READ

\* tlsHandshakeLoops resubmitting on want-write only.
tlsHandshakeLoops_WriteOnly(mbedtlsError) ==
    mbedtlsError = MBEDTLS_ERR_SSL_WANT_WRITE

\* The do-while condition of tlsHandshake.
tlsHandshakeLoops(mbedtlsError) ==
    \/ mbedtlsError = MBEDTLS_ERR_SSL_WANT_READ
    \/ mbedtlsError = MBEDTLS_ERR_SSL_WANT_WRITE

\* The status tlsHandshake returns once the loop has ended.
tlsHandshakeStatus(mbedtlsError) ==
    IF mbedtlsError # 0
    THEN TLS_TRANSPORT_HANDSHAKE_FAILED
    ELSE TLS_TRANSPORT_SUCCESS

\* What one mbedtls_ssl_handshake call can return after one transfer through
\* the adapter: the adapter's failure as it is, or the engine's own verdict.
HandshakeStepResults(adapterRet) ==
    IF adapterRet < 0
    THEN {adapterRet}
    ELSE {0, MBEDTLS_ERR_SSL_WANT_READ, MBEDTLS_ERR_SSL_WANT_WRITE,
          MBEDTLS_ERR_SSL_FATAL_ALERT_MESSAGE}

(* ------------------------ steady-state transfer ------------------------ *)

\* What mbedtls_ssl_read / mbedtls_ssl_write can return after one transfer
\* through the adapter.
RecordResults(adapterRet) ==
    IF adapterRet < 0
    THEN {adapterRet}
    ELSE (0..adapterRet)
         \cup {MBEDTLS_ERR_SSL_TIMEOUT, MBEDTLS_ERR_SSL_WANT_READ,
               MBEDTLS_ERR_SSL_WANT_WRITE, MBEDTLS_ERR_SSL_FATAL_ALERT_MESSAGE}

\* The return value of mbedtls_transport_recv for a result of mbedtls_ssl_read.
mbedtls_transport_recv(tlsStatus) ==
    IF \/ tlsStatus = MBEDTLS_ERR_SSL_TIMEOUT
       \/ tlsStatus = MBEDTLS_ERR_SSL_WANT_READ
       \/ tlsStatus = MBEDTLS_ERR_SSL_WANT_WRITE
    THEN 0
    ELSE tlsStatus

\* mbedtls_transport_send with want-write left as an error.
mbedtls_transport_send_NoWantWrite(tlsStatus) ==
    IF \/ tlsStatus = MBEDTLS_ERR_SSL_TIMEOUT
       \/ tlsStatus = MBEDTLS_ERR_SSL_WANT_READ
    THEN 0
    ELSE tlsStatus

\* The return value of mbedtls_transport_send for a result of mbedtls_ssl_write.
mbedtls_transport_send(tlsStatus) ==
    IF \/ tlsStatus = MBEDTLS_ERR_SSL_TIMEOUT
       \/ tlsStatus = MBEDTLS_ERR_SSL_WANT_READ
       \/ tlsStatus = MBEDTLS_ERR_SSL_WANT_WRITE
    THEN 0
    ELSE tlsStatus

(* ------------------------------- actions ------------------------------- *)

\* The locals and context fields a call on context c starts from.
StartOf(c) ==
    [sock |-> pxSocketContext[c], eng |-> eng[c], pool |-> sockState,
     opener |-> sockOpener, alt |-> threadingAlt,
     status |-> TLS_TRANSPORT_SUCCESS, err |-> 0, opened |-> NULL, log |-> <<>>]

\* The context fields and the collaborators' state a call leaves behind.
Leaves(c, f) ==
    /\ pxSocketContext' = [pxSocketContext EXCEPT ![c] = f.sock]
    /\ eng' = [eng EXCEPT ![c] = f.eng]
    /\ sockState' = f.pool
    /\ sockOpener' = f.opener
    /\ threadingAlt' = f.alt

\* mbedtls_transport_connect is called: it returns a failure, or enters the
\* handshake loop.
Connect(c) ==
    /\ pc[c] = "idle"
    /\ \E host \in HostArgs, creds \in CredentialArgs :
         \E s \in connectBody(c, StartOf(c), host, creds) :
           LET f == connectCleanup(s)
               loops == s.status = TLS_TRANSPORT_SUCCESS
           IN  /\ Leaves(c, f)
               /\ pc' = [pc EXCEPT ![c] = IF loops THEN "handshake" ELSE "idle"]
               /\ hsCalls' = [hsCalls EXCEPT ![c] = 0]
               /\ hsRetries' = [hsRetries EXCEPT ![c] = 0]
               /\ call' = [NoCall EXCEPT
                     !.ctx = c, !.op = "connect", !.host = host, !.creds = creds,
                     !.prevSock = pxSocketContext[c], !.prevEng = eng[c],
                     !.opened = f.opened, !.log = f.log,
                     !.status = IF loops THEN Pending ELSE s.status]

\* One iteration of the handshake loop; when the loop ends, the rest of
\* tlsHandshake and of mbedtls_transport_connect up to its return.
HandshakeStep(c) ==
    /\ pc[c] = "handshake"
    /\ \E io \in {"send", "recv"}, r \in SockResults :
         \E mbedtlsError \in HandshakeStepResults(Adapter(io, r)) :
           LET n == Inc(hsCalls[c])
               k == IF mbedtlsError \in {MBEDTLS_ERR_SSL_WANT_READ,
                                         MBEDTLS_ERR_SSL_WANT_WRITE}
                    THEN Inc(hsRetries[c])
                    ELSE hsRetries[c]
               seen == [NoCall EXCEPT
                          !.ctx = c, !.io = io, !.sockRet = r.ret,
                          !.sockErrno = r.errno, !.adapterRet = Adapter(io, r),
                          !.mbedtlsError = mbedtlsError, !.hsCalls = n,
                          !.hsRetries = k, !.ioSock = pxSocketContext[c],
                          !.sockCalls = adapterForward(io, pxSocketContext[c], r)]
           IN  /\ hsCalls' = [hsCalls EXCEPT ![c] = n]
               /\ hsRetries' = [hsRetries EXCEPT ![c] = k]
               /\ IF tlsHandshakeLoops(mbedtlsError)
                  THEN /\ call' = [seen EXCEPT !.op = "handshake"]
                       /\ UNCHANGED <<pxSocketContext, eng, pc, sockState,
                                      sockOpener, threadingAlt>>
                  ELSE LET s == [StartOf(c) EXCEPT
                                   !.status = tlsHandshakeStatus(mbedtlsError),
                                   !.opened = pxSocketContext[c],
                                   !.eng.ssl = IF mbedtlsError = 0 THEN "open" ELSE @]
                           f == connectCleanup(s)
                       IN  /\ Leaves(c, f)
                           /\ pc' = [pc EXCEPT ![c] = "idle"]
                           /\ call' = [seen EXCEPT
                                 !.op = "connect", !.opened = f.opened,
                                 !.log = f.log, !.status = s.status]

\* The handshake loop of context c ends.
HandshakeReturns(c) == HandshakeStep(c) /\ pc'[c] = "idle"

\* A record read or write of the engine on context c, in direction io: on a
\* session whose handshake is over it moves data through the adapter, on any
\* other it fails before any I/O.
EngineTransfer(c, io) ==
    IF eng[c].ssl = "open"
    THEN UNION { { [NoCall EXCEPT
                      !.ctx = c, !.op = io, !.io = io, !.sockRet = r.ret,
                      !.sockErrno = r.errno, !.adapterRet = Adapter(io, r),
                      !.tlsStatus = tlsStatus, !.ioSock = pxSocketContext[c],
                      !.sockCalls = adapterForward(io, pxSocketContext[c], r)]
                   : tlsStatus \in RecordResults(Adapter(io, r)) }
                 : r \in SockResults }
    ELSE { [NoCall EXCEPT
              !.ctx = c, !.op = io,
              !.tlsStatus = MBEDTLS_ERR_SSL_BAD_INPUT_DATA] }

\* transferLeaves closing the socket and releasing the engine when the
\* transfer failed.
transferLeaves_ClosesOnFatal(st, tlsStatus) ==
    IF tlsStatus < 0
          /\ tlsStatus \notin {MBEDTLS_ERR_SSL_TIMEOUT, MBEDTLS_ERR_SSL_WANT_READ,
                               MBEDTLS_ERR_SSL_WANT_WRITE}
          /\ st.sock # NULL
    THEN [st EXCEPT !.pool = sockClose(st.pool, st.sock), !.sock = NULL,
                    !.eng = tlsContextFree(st.eng)]
    ELSE st

\* What mbedtls_transport_send and mbedtls_transport_recv do to the context
\* and the collaborators after mbedtls_ssl_write / mbedtls_ssl_read answered
\* tlsStatus: they only map the status, and write no field of the context.
transferLeaves(st, tlsStatus) == st

\* mbedtls_transport_send is called.
Send(c) ==
    /\ pc[c] = "idle"
    /\ \E t \in EngineTransfer(c, "send") :
         /\ call' = [t EXCEPT !.ret = mbedtls_transport_send(t.tlsStatus)]
         /\ Leaves(c, transferLeaves(StartOf(c), t.tlsStatus))
    /\ UNCHANGED <<pc, hsCalls, hsRetries>>

\* mbedtls_transport_recv is called.
Recv(c) ==
    /\ pc[c] = "idle"
    /\ \E t \in EngineTransfer(c, "recv") :
         /\ call' = [t EXCEPT !.ret = mbedtls_transport_recv(t.tlsStatus)]
         /\ Leaves(c, transferLeaves(StartOf(c), t.tlsStatus))
    /\ UNCHANGED <<pc, hsCalls, hsRetries>>

\* What mbedtls_ssl_close_notify can return: on a session whose handshake is
\* over the alert goes through the send adapter, whose failure comes back as
\* it is; on any other session the engine refuses before any I/O.
CloseNotifyResults(live, adapterRet) ==
    IF ~live
    THEN {MBEDTLS_ERR_SSL_BAD_INPUT_DATA}
    ELSE IF adapterRet < 0
         THEN {adapterRet}
         ELSE {0, MBEDTLS_ERR_SSL_WANT_READ, MBEDTLS_ERR_SSL_WANT_WRITE}

\* disconnectBody giving up when the close notification failed.
disconnectBody_StopsOnNotifyError(st, tlsStatus) ==
    LET s0 == Logged(st, "ssl_close_notify", tlsStatus = 0)
        s1 == IF s0.sock # NULL
              THEN [Logged(s0, "close", TRUE) EXCEPT
                        !.pool = sockClose(s0.pool, s0.sock),
                        !.sock = NULL]
              ELSE s0
        s2 == [Logged(s1, "tlsContextFree", TRUE) EXCEPT
                   !.eng = tlsContextFree(s1.eng)]
        s3 == IF tlsStatus \in {0, MBEDTLS_ERR_SSL_WANT_READ,
                                MBEDTLS_ERR_SSL_WANT_WRITE}
              THEN s2
              ELSE s0
    IN  [Logged(s3, "threading_free_alt", TRUE) EXCEPT !.alt = FALSE]

\* disconnectBody closing the socket before it sends the close notification.
disconnectBody_ClosesFirst(st, tlsStatus) ==
    LET s0 == IF st.sock # NULL
              THEN [Logged(st, "close", TRUE) EXCEPT
                        !.pool = sockClose(st.pool, st.sock),
                        !.sock = NULL]
              ELSE st
        s1 == Logged(s0, "ssl_close_notify", tlsStatus = 0)
        s2 == [Logged(s1, "tlsContextFree", TRUE) EXCEPT
                   !.eng = tlsContextFree(s1.eng)]
    IN  [Logged(s2, "threading_free_alt", TRUE) EXCEPT !.alt = FALSE]

\* disconnectBody closing the socket without clearing the handle.
disconnectBody_KeepsHandle(st, tlsStatus) ==
    LET s0 == Logged(st, "ssl_close_notify", tlsStatus = 0)
        s1 == IF s0.sock # NULL
              THEN [Logged(s0, "close", TRUE) EXCEPT
                        !.pool = sockClose(s0.pool, s0.sock)]
              ELSE s0
        s2 == [Logged(s1, "tlsContextFree", TRUE) EXCEPT
                   !.eng = tlsContextFree(s1.eng)]
    IN  [Logged(s2, "threading_free_alt", TRUE) EXCEPT !.alt = FALSE]

\* The body of mbedtls_transport_disconnect for a non-NULL context, given the
\* answer tlsStatus of mbedtls_ssl_close_notify.
disconnectBody(st, tlsStatus) ==
    LET s0 == Logged(st, "ssl_close_notify", tlsStatus = 0)
        s1 == IF s0.sock # NULL
              THEN [Logged(s0, "close", TRUE) EXCEPT
                        !.pool = sockClose(s0.pool, s0.sock),
                        !.sock = NULL]
              ELSE s0
        s2 == [Logged(s1, "tlsContextFree", TRUE) EXCEPT
                   !.eng = tlsContextFree(s1.eng)]
    IN  [Logged(s2, "threading_free_alt", TRUE) EXCEPT !.alt = FALSE]

\* mbedtls_transport_disconnect on a non-NULL context.
Disconnect(c) ==
    /\ pc[c] = "idle"
    /\ \E r \in SockResults :
         LET live == eng[c].ssl = "open"
         IN  /\ (~live) => r = [ret |-> 0, errno |-> "none"]
             /\ \E tlsStatus \in CloseNotifyResults(live, Adapter("send", r)) :
                  LET f == disconnectBody(StartOf(c), tlsStatus)
                  IN  /\ Leaves(c, f)
                      /\ call' = [NoCall EXCEPT
                            !.ctx = c, !.op = "disconnect",
                            !.prevSock = pxSocketContext[c],
                            !.prevEng = eng[c], !.log = f.log,
                            !.io = IF live THEN "send" ELSE "none",
                            !.sockRet = r.ret, !.sockErrno = r.errno,
                            !.adapterRet = IF live THEN Adapter("send", r) ELSE 0,
                            !.tlsStatus = tlsStatus,
                            !.ioSock = IF live THEN pxSocketContext[c] ELSE NULL,
                            !.sockCalls =
                                IF live
                                THEN adapterForward("send", pxSocketContext[c], r)
                                ELSE <<>>,
                            !.prevDisconnect =
                                (call.op = "disconnect" /\ call.ctx = c)]
    /\ UNCHANGED <<pc, hsCalls, hsRetries>>

\* What the local pxTLSContext of mbedtls_transport_allocate holds when it is
\* tested: the result of pvPortMalloc (NULL or a block), or, with a NULL
\* interface, the value the never-assigned local happens to have.
allocatePointer(pxSocketInterface) ==
    IF pxSocketInterface THEN {"NULL", "block"} ELSE {"NULL", "wild"}

\* mbedtls_transport_allocate is called; pxSocketInterface says whether the
\* interface argument is non-NULL.  The call returns its local pxTLSContext,
\* after a memset and the interface assignment through it when it is not
\* NULL.
Allocate ==
    /\ \E pxSocketInterface \in BOOLEAN :
         \E pxTLSContext \in allocatePointer(pxSocketInterface) :
            call' = [NoCall EXCEPT
                       !.op = "allocate",
                       !.pxSocketInterface = pxSocketInterface,
                       !.pxTLSContext = pxTLSContext,
                       !.log = IF pxTLSContext = "NULL"
                               THEN <<>>
                               ELSE <<Ev("memset", TRUE, NULL),
                                      Ev("set_pxSocketInterface", TRUE, NULL)>>]
    /\ UNCHANGED <<pxSocketContext, eng, pc, hsCalls, hsRetries, sockState,
                   sockOpener, threadingAlt>>

\* What mbedtls_transport_connect can do after it read pxSocketInterface
\* through a NULL context: fault at the read, or go on with whatever the read
\* gave and return a status.
NullContextOutcomes ==
    {"Fault", TLS_TRANSPORT_INVALID_PARAMETER, TLS_TRANSPORT_INTERNAL_ERROR}

\* mbedtls_transport_connect is called with a NULL context: its first
\* statement reads pxTLSContext->pxSocketInterface, before the NULL check.
ConnectNull ==
    /\ \E host \in HostArgs, status \in NullContextOutcomes :
         call' = [NoCall EXCEPT
                    !.op = "connect_null", !.host = host, !.status = status,
                    !.log = <<Ev("read_pxSocketInterface", FALSE, NULL)>>]
    /\ UNCHANGED <<pxSocketContext, eng, pc, hsCalls, hsRetries, sockState,
                   sockOpener, threadingAlt>>

\* mbedtls_transport_disconnect is called with a NULL context.
DisconnectNull ==
    /\ threadingAlt' = FALSE
    /\ call' = [NoCall EXCEPT
                  !.op = "disconnect_null",
                  !.log = <<Ev("threading_free_alt", TRUE, NULL)>>]
    /\ UNCHANGED <<pxSocketContext, eng, pc, hsCalls, hsRetries, sockState,
                   sockOpener>>

Next ==
    \/ \E c \in Contexts :
          \/ Connect(c)
          \/ HandshakeStep(c)
          \/ Send(c)
          \/ Recv(c)
          \/ Disconnect(c)
    \/ Allocate
    \/ ConnectNull
    \/ DisconnectNull

Spec == Init /\ [][Next]_vars

\* The engine's handshake step eventually answers something other than
\* want-read / want-write.
FairSpec == Spec /\ \A c \in Contexts : WF_vars(HandshakeReturns(c))

(* ------------- two contexts over the same socket interface ------------- *)

TwoContexts == {1, 2}

\* Two calls of mbedtls_transport_allocate.
InitTwo ==
    /\ pxSocketContext = [c \in TwoContexts |-> NULL]
    /\ eng = [c \in TwoContexts |-> ZeroEngine]
    /\ pc = [c \in TwoContexts |-> "idle"]
    /\ hsCalls = [c \in TwoContexts |-> 0]
    /\ hsRetries = [c \in TwoContexts |-> 0]
    /\ sockState = [h \in Handles |-> "free"]
    /\ sockOpener = [h \in Handles |-> 0]
    /\ threadingAlt = FALSE
    /\ call = NoCall

\* Credentials with a trust anchor and nothing else, SNI disabled.
RootCaOnly ==
    [isNull |-> FALSE, pRootCa |-> TRUE, pClientCert |-> FALSE,
     pPrivateKey |-> FALSE, pAlpnProtos |-> FALSE, disableSni |-> TRUE]

\* The inputs tried with two contexts: connect with a host name and either
\* RootCaOnly or NULL credentials, the fragment-length setting accepted, the
\* socket's send / recv failing with EINTR or EIO only, and at most one
\* retry answer per handshake.
TwoInputs ==
    /\ (call'.op = "connect" /\ call'.hsCalls = 0) =>
          /\ call'.host
          /\ call'.creds \in {RootCaOnly, NullCredentials}
          /\ \A i \in 1..Len(call'.log) :
               call'.log[i].op = "conf_max_frag_len" => call'.log[i].ok
    /\ call'.sockErrno \in {"none", "EINTR", "EIO"}
    /\ call'.hsRetries <= 1

ConnectTwo(c) == Connect(c) /\ TwoInputs

HandshakeStepTwo(c) == HandshakeStep(c) /\ TwoInputs

SendTwo(c) == Send(c) /\ TwoInputs

RecvTwo(c) == Recv(c) /\ TwoInputs

DisconnectTwo(c) == Disconnect(c) /\ TwoInputs

NextTwo ==
    \E c \in TwoContexts :
      \/ ConnectTwo(c)
      \/ HandshakeStepTwo(c)
      \/ SendTwo(c)
      \/ RecvTwo(c)
      \/ DisconnectTwo(c)

SpecTwo == InitTwo /\ [][NextTwo]_vars

(* ------------------------ observations of a call ----------------------- *)

\* The most recent step is the return of mbedtls_transport_connect.
ConnectReturned == call.op = "connect" /\ call.status # Pending

\* The context holds an open socket and a session whose handshake is over.
Established(c) ==
    /\ pc[c] = "idle"
    /\ pxSocketContext[c] # NULL
    /\ sockState[pxSocketContext[c]] = "open"
    /\ eng[c].ssl = "open"

\* Operations of the socket interface, as they appear in a call's log.
SocketOps ==
    {"socket", "close", "setsockopt_rcvtimeo", "setsockopt_sndtimeo",
     "connect_name"}

LogOps(log) == { log[i].op : i \in 1..Len(log) }

(* -------------------------------- C1 ----------------------------------- *)
(* C1: whenever mbedtls_transport_connect returns a status other than      *)
(* Success, whatever the context held before and whichever stage failed,   *)
(* on return the socket handle is NULL, the socket the context held before *)
(* and the socket opened during the call are closed, no socket opened by   *)
(* the context is still open, and every mbedTLS structure of the context   *)
(* has been released.                                                      *)
C1_FailedConnectReleasesAll ==
    (ConnectReturned /\ call.status # TLS_TRANSPORT_SUCCESS) =>
        /\ pxSocketContext[call.ctx] = NULL
        /\ call.opened # NULL => sockState[call.opened] = "closed"
        /\ call.prevSock # NULL => sockState[call.prevSock] = "closed"
        /\ \A h \in Handles : sockOpener[h] = call.ctx => sockState[h] # "open"
        /\ \A f \in EngineFields : eng[call.ctx][f] = "freed"

\* A reconnect of a context that held a socket fails after it opened a new one.
C1_Witness ==
    /\ ConnectReturned
    /\ call.status \notin {TLS_TRANSPORT_SUCCESS, TLS_TRANSPORT_INVALID_PARAMETER}
    /\ call.prevSock # NULL
    /\ call.opened # NULL
    /\ call.opened # call.prevSock

(* -------------------------------- C2 ----------------------------------- *)
(* C2: for every credential set without a trust anchor, and whatever the   *)
(* socket interface would answer, mbedtls_transport_connect returns        *)
(* InvalidParameter and invokes no operation of the socket interface.      *)
C2_NoTrustAnchorNoSocketIO ==
    (call.op = "connect" /\ ~call.creds.isNull /\ ~call.creds.pRootCa) =>
        /\ call.status = TLS_TRANSPORT_INVALID_PARAMETER
        /\ LogOps(call.log) \cap SocketOps = {}

(* -------------------------------- C3 ----------------------------------- *)
(* C3: a connect call that fails parameter validation (NULL host name,     *)
(* NULL credentials or missing trust anchor) has no side effects: the      *)
(* socket handle and the mbedTLS structures of the context are what they   *)
(* were before the call, and a socket the context held is still open.      *)
C3_ParamFailureNoSideEffects ==
    (call.op = "connect"
       /\ connectParamCheck(call.host, call.creds) # TLS_TRANSPORT_SUCCESS) =>
        /\ pxSocketContext[call.ctx] = call.prevSock
        /\ eng[call.ctx] = call.prevEng
        /\ call.prevSock # NULL => sockState[call.prevSock] = "open"
        /\ call.log = <<>>

(* -------------------------------- C4 ----------------------------------- *)

\* The status the claim gives to the failure of each mandatory operation.
StageStatus ==
    [op \in {"socket", "setsockopt_rcvtimeo", "setsockopt_sndtimeo",
             "connect_name", "ctr_drbg_seed", "ssl_config_defaults",
             "x509_crt_parse_ca", "x509_crt_parse_client", "pk_parse_key",
             "conf_own_cert", "ssl_setup"} |->
       CASE op = "socket" -> TLS_TRANSPORT_INTERNAL_ERROR
         [] op \in {"setsockopt_rcvtimeo", "setsockopt_sndtimeo"} ->
                TLS_TRANSPORT_INVALID_PARAMETER
         [] op = "connect_name" -> TLS_TRANSPORT_CONNECT_FAILURE
         [] op = "ctr_drbg_seed" -> TLS_TRANSPORT_INTERNAL_ERROR
         [] op = "ssl_config_defaults" -> TLS_TRANSPORT_INSUFFICIENT_MEMORY
         [] op = "ssl_setup" -> TLS_TRANSPORT_INTERNAL_ERROR
         [] OTHER -> TLS_TRANSPORT_INVALID_CREDENTIALS]

\* The mandatory operations of a log that failed.
FailedAt(log) ==
    { i \in 1..Len(log) : log[i].op \in DOMAIN StageStatus /\ ~log[i].ok }

\* The status the first failing stage of the observed connect call decides:
\* the parameter check first, then the operations in the order invoked, then
\* the handshake.
FirstFailureStatus ==
    IF call.hsCalls > 0
    THEN (IF call.mbedtlsError = 0
          THEN TLS_TRANSPORT_SUCCESS
          ELSE TLS_TRANSPORT_HANDSHAKE_FAILED)
    ELSE IF connectParamCheck(call.host, call.creds) # TLS_TRANSPORT_SUCCESS
         THEN TLS_TRANSPORT_INVALID_PARAMETER
         ELSE IF FailedAt(call.log) # {}
              THEN StageStatus[call.log[Min(FailedAt(call.log))].op]
              ELSE TLS_TRANSPORT_SUCCESS

(* C4: the status connect returns is the one decided by the first stage    *)
(* that fails, a later stage never overwrites it, and connect returns      *)
(* Success if and only if no stage failed and the context is Established.  *)
C4_StatusIsFirstFailure ==
    ConnectReturned =>
        /\ call.status = FirstFailureStatus
        /\ call.status = TLS_TRANSPORT_SUCCESS <=> Established(call.ctx)

(* -------------------------------- C5 ----------------------------------- *)

\* The stage of mbedtls_transport_connect an operation belongs to, in the
\* order the claim gives; 0 for what is no stage (cleanup, reconnect close).
StageRank(op) ==
    CASE op = "socket" -> 1
      [] op \in {"setsockopt_rcvtimeo", "setsockopt_sndtimeo"} -> 2
      [] op = "connect_name" -> 3
      [] op \in {"threading_set_alt", "ctr_drbg_seed"} -> 4
      [] op \in {"tlsContextInit", "ssl_config_defaults"} -> 5
      [] op \in {"conf_authmode_none", "conf_rng", "conf_cert_profile",
                 "x509_crt_parse_ca", "conf_ca_chain", "x509_crt_parse_client",
                 "pk_parse_key", "conf_own_cert"} -> 6
      [] op \in {"conf_alpn_protocols", "set_hostname", "conf_max_frag_len"} -> 7
      [] op \in {"ssl_setup", "ssl_set_bio"} -> 8
      [] OTHER -> 0

\* The advisory settings: their failure fails no stage.
OptionalRank == StageRank("set_hostname")

LastSetupRank == StageRank("ssl_set_bio")

\* The operations of the log follow the stage order, and an operation of a
\* stage is invoked only after every earlier stage ran and none of them failed.
StagesInOrder(log) ==
    /\ \A i, j \in 1..Len(log) :
         (i < j /\ StageRank(log[i].op) > 0 /\ StageRank(log[j].op) > 0) =>
            /\ StageRank(log[i].op) <= StageRank(log[j].op)
            /\ StageRank(log[i].op) < StageRank(log[j].op) =>
                   (log[i].ok \/ StageRank(log[i].op) = OptionalRank)
    /\ \A j \in 1..Len(log) :
         \A m \in 1..(StageRank(log[j].op) - 1) :
            m # OptionalRank => \E i \in 1..(j - 1) : StageRank(log[i].op) = m

\* Every stage before the handshake ran and succeeded.
AllStagesSucceeded(log) ==
    /\ \A m \in 1..LastSetupRank :
         m # OptionalRank => \E i \in 1..Len(log) : StageRank(log[i].op) = m
    /\ \A i \in 1..Len(log) :
         log[i].ok \/ StageRank(log[i].op) \in {0, OptionalRank}

(* C5: within one connect call the stages run in the order socket open,    *)
(* timeouts, connect-by-name, RNG seeding, engine defaults, credentials,   *)
(* optional settings, session setup with the adapter bound, handshake; a   *)
(* stage starts only if every earlier one succeeded.  When connect-by-name *)
(* fails connect returns ConnectFailure and no seeding, parsing or         *)
(* handshake step is invoked.                                              *)
C5_StagesInOrder ==
    /\ call.op = "connect" =>
         /\ StagesInOrder(call.log)
         /\ call.status = Pending => AllStagesSucceeded(call.log)
         /\ (\E i \in 1..Len(call.log) :
               call.log[i].op = "connect_name" /\ ~call.log[i].ok) =>
                /\ call.status = TLS_TRANSPORT_CONNECT_FAILURE
                /\ call.hsCalls = 0
                /\ \A i \in 1..Len(call.log) : StageRank(call.log[i].op) <= 3
         /\ call.hsCalls > 0 =>
                call.status \in {TLS_TRANSPORT_SUCCESS,
                                 TLS_TRANSPORT_HANDSHAKE_FAILED}
    /\ \A c \in DOMAIN pc :
         (pc[c] = "handshake" \/ (call.ctx = c /\ call.op = "handshake")) =>
            /\ pc[c] = "handshake"
            /\ pxSocketContext[c] # NULL
            /\ sockState[pxSocketContext[c]] = "open"
            /\ eng[c].drbg = "live"
            /\ eng[c].cfg = "live"
            /\ eng[c].ca = "live"
            /\ eng[c].ssl = "setup"

\* The host is unreachable: connect-by-name failed on a freshly opened socket.
C5_Witness ==
    /\ ConnectReturned
    /\ call.status = TLS_TRANSPORT_CONNECT_FAILURE
    /\ \E i \in 1..Len(call.log) :
         call.log[i].op = "connect_name" /\ ~call.log[i].ok
    /\ call.opened # NULL

(* -------------------------------- C6 ----------------------------------- *)
(* C6: when the handshake step answers want-read / want-write N times (in  *)
(* any mix) and then something else, connect returns after exactly N+1     *)
(* step invocations: Success when that answer is 0, HandshakeFailed when   *)
(* it is a failure code.  (N is counted exactly below MaxHandshakeSteps.)  *)
C6_HandshakeStepCount ==
    /\ (ConnectReturned /\ call.hsCalls > 0) =>
         /\ call.mbedtlsError \notin {MBEDTLS_ERR_SSL_WANT_READ,
                                      MBEDTLS_ERR_SSL_WANT_WRITE}
         /\ call.hsRetries < MaxHandshakeSteps =>
                call.hsCalls = call.hsRetries + 1
         /\ call.mbedtlsError = 0 => call.status = TLS_TRANSPORT_SUCCESS
         /\ call.mbedtlsError # 0 => call.status = TLS_TRANSPORT_HANDSHAKE_FAILED
    /\ (ConnectReturned /\ call.status = TLS_TRANSPORT_SUCCESS) =>
         call.hsCalls > 0
    /\ call.op = "handshake" =>
         /\ call.hsCalls = call.hsRetries
         /\ call.mbedtlsError \in {MBEDTLS_ERR_SSL_WANT_READ,
                                   MBEDTLS_ERR_SSL_WANT_WRITE}

\* Two retry answers, then success on the third invocation.
C6_Witness ==
    /\ ConnectReturned
    /\ call.status = TLS_TRANSPORT_SUCCESS
    /\ call.hsRetries = 2
    /\ call.hsCalls = 3

(* -------------------------------- C7 ----------------------------------- *)

\* The step just taken is a handshake step of context c that answered r.
StepAnswered(c, R) ==
    /\ pc[c] = "handshake"
    /\ call'.ctx = c
    /\ call'.op \in {"handshake", "connect"}
    /\ call'.hsCalls > 0
    /\ call'.mbedtlsError \in R

RetrySignals == {MBEDTLS_ERR_SSL_WANT_READ, MBEDTLS_ERR_SSL_WANT_WRITE}

FinalAnswers ==
    {0, MBEDTLS_ERR_NET_CONN_RESET, MBEDTLS_ERR_NET_SEND_FAILED,
     MBEDTLS_ERR_NET_RECV_FAILED, MBEDTLS_ERR_SSL_FATAL_ALERT_MESSAGE}

(* C7: the handshake loop has no retry bound: a step that answers          *)
(* want-read / want-write always leaves connect inside the loop, however   *)
(* many retries came before, and another retry is always possible; any     *)
(* other answer ends the call.  If the engine eventually answers something *)
(* other than a retry signal, connect eventually returns.                  *)
C7_HandshakeTermination ==
    /\ \A c \in Contexts : (pc[c] = "handshake") ~> (pc[c] = "idle")
    /\ [][\A c \in Contexts :
            /\ StepAnswered(c, RetrySignals) =>
                   /\ pc'[c] = "handshake"
                   /\ UNCHANGED <<pxSocketContext, eng, sockState>>
            /\ StepAnswered(c, FinalAnswers) => pc'[c] = "idle"]_vars
    /\ [](\A c \in Contexts :
            pc[c] = "handshake" =>
               ENABLED (HandshakeStep(c) /\ pc'[c] = "handshake"))

\* The loop is still running after more retries than the counters count.
C7_Witness ==
    /\ call.op = "handshake"
    /\ pc[call.ctx] = "handshake"
    /\ call.hsRetries = MaxHandshakeSteps
    /\ hsCalls[call.ctx] = MaxHandshakeSteps

(* -------------------------------- C8 ----------------------------------- *)

RetryErrnos == {"EINTR", "EWOULDBLOCK", "EAGAIN"}

ResetErrnos == {"ECONNRESET", "EPIPE"}

(* C8: each adapter callback returns a result >= 0 of the socket call      *)
(* unchanged; a negative result with errno interrupted / would-block /     *)
(* try-again as want-write (send) or want-read (recv); with errno          *)
(* connection-reset / broken-pipe as connection-reset; with any other      *)
(* errno as send-failed (send) or receive-failed (recv).                   *)
C8_AdapterMapping ==
    call.io # "none" =>
        /\ call.sockRet >= 0 => call.adapterRet = call.sockRet
        /\ (call.sockRet < 0 /\ call.sockErrno \in RetryErrnos) =>
               call.adapterRet = (IF call.io = "send"
                                  THEN MBEDTLS_ERR_SSL_WANT_WRITE
                                  ELSE MBEDTLS_ERR_SSL_WANT_READ)
        /\ (call.sockRet < 0 /\ call.sockErrno \in ResetErrnos) =>
               call.adapterRet = MBEDTLS_ERR_NET_CONN_RESET
        /\ (call.sockRet < 0 /\ call.sockErrno \notin RetryErrnos \cup ResetErrnos) =>
               call.adapterRet = (IF call.io = "send"
                                  THEN MBEDTLS_ERR_NET_SEND_FAILED
                                  ELSE MBEDTLS_ERR_NET_RECV_FAILED)

\* The recv adapter met a would-block and answered want-read.
C8_Witness ==
    /\ call.io = "recv"
    /\ call.sockRet < 0
    /\ call.sockErrno = "EWOULDBLOCK"
    /\ call.adapterRet = MBEDTLS_ERR_SSL_WANT_READ

(* -------------------------------- C9 ----------------------------------- *)
(* C9: mbedtls_transport_send and mbedtls_transport_recv return 0 for the  *)
(* engine results timeout, want-read and want-write, and return every      *)
(* other result, negative or not, unchanged.                               *)
C9_TransferStatusMapping ==
    call.op \in {"send", "recv"} =>
        /\ call.tlsStatus \in {MBEDTLS_ERR_SSL_TIMEOUT, MBEDTLS_ERR_SSL_WANT_READ,
                               MBEDTLS_ERR_SSL_WANT_WRITE} => call.ret = 0
        /\ (call.tlsStatus < 0
              /\ call.tlsStatus \notin {MBEDTLS_ERR_SSL_TIMEOUT,
                                        MBEDTLS_ERR_SSL_WANT_READ,
                                        MBEDTLS_ERR_SSL_WANT_WRITE}) =>
               (call.ret = call.tlsStatus /\ call.ret < 0)
        /\ call.tlsStatus >= 0 => call.ret = call.tlsStatus

\* A read on an established session timed out and recv returned 0.
C9_Witness ==
    /\ call.op = "recv"
    /\ call.io = "recv"
    /\ call.tlsStatus = MBEDTLS_ERR_SSL_TIMEOUT
    /\ call.ret = 0

(* -------------------------------- C10 ---------------------------------- *)
(* C10: on an Established context, when the socket send/recv under a       *)
(* mbedtls_transport_send/recv call fails with interrupted or would-block  *)
(* the caller gets 0; when it fails with reset, broken pipe or any other   *)
(* error the caller gets a negative value.                                 *)
C10_RetryableNeverAnError ==
    (call.op \in {"send", "recv"} /\ call.io # "none" /\ call.sockRet < 0
       /\ Established(call.ctx) /\ call.tlsStatus = call.adapterRet) =>
        /\ call.sockErrno \in RetryErrnos => call.ret = 0
        /\ call.sockErrno \notin RetryErrnos => call.ret < 0

\* A send on an established session was interrupted and the caller got 0.
C10_Witness ==
    /\ call.op = "send"
    /\ Established(call.ctx)
    /\ call.sockRet < 0
    /\ call.sockErrno = "EINTR"
    /\ call.ret = 0

(* -------------------------------- C11 ---------------------------------- *)
(* C11: NetworkCredentials_t carries no way to opt out of verification, so *)
(* every configuration a handshake step runs on, and every configuration   *)
(* of an established session, has the authentication mode "peer            *)
(* verification required".                                                 *)
C11_VerificationRequired ==
    \A c \in DOMAIN pc :
        (pc[c] = "handshake" \/ eng[c].ssl = "open") =>
            eng[c].authmode = "required"

(* ------------------- observations of a disconnect ---------------------- *)

\* The positions of the operation op in a log.
At(log, op) == { i \in 1..Len(log) : log[i].op = op }

\* The context holds no socket and no session.
Unconnected(c) ==
    /\ pc[c] = "idle"
    /\ pxSocketContext[c] = NULL
    /\ eng[c].ssl # "open"

\* A handle a context holds is an open socket.
HeldSocketsOpen ==
    \A c \in DOMAIN pc :
        pxSocketContext[c] # NULL => sockState[pxSocketContext[c]] = "open"

(* -------------------------------- C12 ---------------------------------- *)
(* C12: whatever mbedtls_ssl_close_notify answered (0, want-read,          *)
(* want-write or an error), when mbedtls_transport_disconnect returns the  *)
(* socket handle is NULL, the socket the context held is closed, no socket *)
(* opened by the context is open, and every mbedTLS structure of the       *)
(* context has been released.                                              *)
C12_DisconnectReleasesAll ==
    call.op = "disconnect" =>
        /\ pxSocketContext[call.ctx] = NULL
        /\ call.prevSock # NULL => sockState[call.prevSock] = "closed"
        /\ \A h \in Handles : sockOpener[h] = call.ctx => sockState[h] # "open"
        /\ \A f \in EngineFields : eng[call.ctx][f] = "freed"

\* A disconnect of an established session whose close notification failed.
C12_Witness ==
    /\ call.op = "disconnect"
    /\ call.prevSock # NULL
    /\ call.prevEng.ssl = "open"
    /\ call.tlsStatus = MBEDTLS_ERR_NET_CONN_RESET

(* -------------------------------- C13 ---------------------------------- *)
(* C13: a disconnect call invokes mbedtls_ssl_close_notify exactly once,   *)
(* as its first operation, also when it answers want-read / want-write;    *)
(* the socket close comes after it and tlsContextFree after the close.     *)
(* A notification that goes on the wire is sent over the socket the        *)
(* context holds, which is open, on a session that is not yet released.    *)
C13_NotifyThenCloseThenFree ==
    /\ call.op = "disconnect" =>
         /\ At(call.log, "ssl_close_notify") = {1}
         /\ Cardinality(At(call.log, "tlsContextFree")) = 1
         /\ \A i \in At(call.log, "close"), j \in At(call.log, "tlsContextFree") :
              1 < i /\ i < j
         /\ call.log[1].h = call.prevSock
         /\ call.io = "send" =>
              /\ call.ioSock = call.prevSock
              /\ call.prevSock # NULL
              /\ call.prevEng.ssl = "open"
    /\ HeldSocketsOpen

\* The close notification answered want-read and the teardown went on.
C13_Witness ==
    /\ call.op = "disconnect"
    /\ call.tlsStatus = MBEDTLS_ERR_SSL_WANT_READ
    /\ call.prevSock # NULL
    /\ Cardinality(At(call.log, "ssl_close_notify")) = 1

(* -------------------------------- C14 ---------------------------------- *)
(* C14: a disconnect closes the socket the context held exactly once, and  *)
(* a disconnect that directly follows a disconnect of the same context     *)
(* invokes no close, finds nothing held that it could release again, and   *)
(* leaves the context as the first call left it.                           *)
C14_DisconnectIdempotent ==
    /\ call.op = "disconnect" =>
         /\ Cardinality(At(call.log, "close")) =
                (IF call.prevSock # NULL THEN 1 ELSE 0)
         /\ \A i \in At(call.log, "close") : call.log[i].h = call.prevSock
    /\ (call.op = "disconnect" /\ call.prevDisconnect) =>
         /\ call.prevSock = NULL
         /\ At(call.log, "close") = {}
         /\ \A f \in EngineFields : call.prevEng[f] = "freed"
         /\ pxSocketContext[call.ctx] = call.prevSock
         /\ eng[call.ctx] = call.prevEng

\* The second of two disconnect calls in a row.
C14_Witness ==
    /\ call.op = "disconnect"
    /\ call.prevDisconnect
    /\ Unconnected(call.ctx)

(* -------------------------------- C15 ---------------------------------- *)

\* The states of an mbedTLS structure its free function is defined on:
\* zeroed, initialised, in use, or already freed.
ReleasableStates == {"zero", "init", "live", "setup", "open", "freed"}

(* C15: a disconnect of a context that holds no established session (just  *)
(* allocated, or after a failed connect) invokes no close on a NULL        *)
(* handle, passes tlsContextFree only structures that are zeroed,          *)
(* initialised or already released, and leaves the context Unconnected.    *)
C15_DisconnectBeforeEstablished ==
    (call.op = "disconnect" /\ call.prevEng.ssl # "open") =>
        /\ \A i \in At(call.log, "close") : call.log[i].h # NULL
        /\ call.prevSock = NULL => At(call.log, "close") = {}
        /\ \A f \in EngineFields : call.prevEng[f] \in ReleasableStates
        /\ Unconnected(call.ctx)
        /\ \A f \in EngineFields : eng[call.ctx][f] = "freed"

\* A disconnect of a context that was only allocated.
C15_Witness ==
    /\ call.op = "disconnect"
    /\ call.prevEng = ZeroEngine
    /\ call.prevSock = NULL
    /\ ~call.prevDisconnect

(* -------------------------------- C16 ---------------------------------- *)
(* C16: a connect call on a context that holds a socket closes that socket *)
(* as its first operation, before socket() is invoked; no later operation  *)
(* of the call takes the old handle, no handle is closed twice in a call,  *)
(* and the handle the adapter passes to the socket's send / recv is a      *)
(* socket that was open then (closed, if at all, later in the same call).  *)
C16_OldHandleNeverReused ==
    /\ (call.op = "connect" /\ call.prevSock # NULL) =>
         /\ Len(call.log) >= 2
         /\ call.log[1] = Ev("close", TRUE, call.prevSock)
         /\ call.log[2].op = "socket"
         /\ \A i \in 2..Len(call.log) :
              call.log[i].op \in SocketOps => call.log[i].h # call.prevSock
         /\ call.opened # call.prevSock
         /\ sockState[call.prevSock] = "closed"
         /\ pxSocketContext[call.ctx] # call.prevSock
    /\ \A i, j \in At(call.log, "close") : i # j => call.log[i].h # call.log[j].h
    /\ call.io # "none" =>
         /\ call.ioSock # NULL
         /\ sockState[call.ioSock] = "closed" =>
              \E i \in At(call.log, "close") : call.log[i].h = call.ioSock
    /\ HeldSocketsOpen

\* A reconnect closed the old socket, opened another and goes on with it.
C16_Witness ==
    /\ call.op = "connect"
    /\ call.status = Pending
    /\ call.prevSock # NULL
    /\ call.opened # NULL
    /\ pxSocketContext[call.ctx] = call.opened

(* -------------------------------- C17 ---------------------------------- *)
(* C17: in every reachable state, the only open socket a context's connect *)
(* calls have opened is the one its handle names, so a context owns at     *)
(* most one live socket; a handle a context holds is an open socket that   *)
(* this context opened, and no two contexts hold the same handle.          *)
C17_ExclusiveSocketOwnership ==
    /\ \A c \in DOMAIN pc :
         \A h \in Handles :
            (sockOpener[h] = c /\ sockState[h] = "open") =>
                pxSocketContext[c] = h
    /\ \A c \in DOMAIN pc :
         pxSocketContext[c] # NULL =>
            /\ sockState[pxSocketContext[c]] = "open"
            /\ sockOpener[pxSocketContext[c]] = c
    /\ \A c1, c2 \in DOMAIN pc :
         (pxSocketContext[c1] # NULL
            /\ pxSocketContext[c1] = pxSocketContext[c2]) => c1 = c2

\* Two contexts are established at once, each over its own socket.
C17_Witness ==
    /\ \A c \in TwoContexts : c \in DOMAIN pc /\ Established(c)
    /\ Cardinality({ pxSocketContext[c] : c \in DOMAIN pc }) = 2

Held(e) == { f \in EngineFields : e[f] \in {"live", "setup", "open"} }

\* The context is inside the handshake loop of connect.
Handshaking(c) ==
    /\ pc[c] = "handshake"
    /\ pxSocketContext[c] # NULL
    /\ eng[c].ssl = "setup"

(* C19: a context is Unconnected, Handshaking or Established whenever it   *)
(* is observed; a connect call enters SocketOpening (invokes socket())     *)
(* only from Unconnected, that is with no socket and no engine resource    *)
(* held, also when it is called on an Established context; and a connect   *)
(* that fails releases exactly what the attempt acquired: it closes only   *)
(* the socket it opened and frees no structure acquired before the call.   *)
C19_LifecycleForwardOnly ==
    /\ \A c \in DOMAIN pc :
         \/ Unconnected(c) /\ Held(eng[c]) = {}
         \/ Handshaking(c)
         \/ Established(c)
    /\ (call.op = "connect" /\ call.hsCalls = 0) =>
         /\ \A i \in At(call.log, "socket") :
              /\ call.log[i].h = NULL
              /\ \/ Held(call.prevEng) = {}
                 \/ \E j \in At(call.log, "tlsContextFree") : j < i
         /\ call.status \notin {Pending, TLS_TRANSPORT_SUCCESS} =>
              /\ \A i \in At(call.log, "close") :
                   \/ call.log[i].h = call.opened
                   \/ i < Min(At(call.log, "socket") \cup {Len(call.log)})
              /\ Held(call.prevEng) = {}

OptionalOps == {"conf_alpn_protocols", "set_hostname", "conf_max_frag_len"}

\* The log shows that credential configuration ended without a failure.
CredentialsConfigured(log, creds) ==
    /\ At(log, "conf_ca_chain") # {}
    /\ (creds.pClientCert /\ creds.pPrivateKey) =>
           \E i \in At(log, "conf_own_cert") : log[i].ok

(* C21: once the credentials are configured, connect applies ALPN exactly  *)
(* when a protocol list is given, SNI exactly when disable-SNI is false,   *)
(* and the fragment length, whichever of them fail; it then goes on to the *)
(* session setup, and its status is the one the mandatory operations       *)
(* decide: the failures of the optional settings do not enter it.  No      *)
(* optional setting is applied before the credentials are configured.      *)
C21_OptionalFailuresIgnored ==
    (call.op = "connect" /\ call.hsCalls = 0) =>
        IF CredentialsConfigured(call.log, call.creds)
        THEN /\ At(call.log, "conf_alpn_protocols") # {} <=> call.creds.pAlpnProtos
             /\ At(call.log, "set_hostname") # {} <=> ~call.creds.disableSni
             /\ At(call.log, "conf_max_frag_len") # {}
                    <=> MBEDTLS_SSL_MAX_FRAGMENT_LENGTH
             /\ \A op \in OptionalOps : Cardinality(At(call.log, op)) <= 1
             /\ At(call.log, "ssl_setup") # {}
             /\ \A i \in At(call.log, "ssl_setup") :
                  /\ \A op \in OptionalOps : \A j \in At(call.log, op) : j < i
                  /\ call.log[i].ok <=> call.status = Pending
                  /\ ~call.log[i].ok <=> call.status = TLS_TRANSPORT_INTERNAL_ERROR
        ELSE LogOps(call.log) \cap OptionalOps = {}

\* ALPN, SNI and the fragment length all failed and connect is in its
\* handshake loop.
C21_Witness ==
    /\ call.op = "connect"
    /\ call.status = Pending
    /\ \A op \in OptionalOps :
         \E i \in At(call.log, op) : ~call.log[i].ok

(* -------------------------------- C22 ---------------------------------- *)
(* C22: mbedtls_transport_allocate returns NULL whenever the interface     *)
(* argument is NULL or pvPortMalloc fails; otherwise it returns the block  *)
(* pvPortMalloc gave, zeroed and referencing the interface.                *)
C22_AllocateNullOnFailure ==
    call.op = "allocate" =>
        /\ ~call.pxSocketInterface => call.pxTLSContext = "NULL"
        /\ call.pxTLSContext # "NULL" =>
             /\ call.pxSocketInterface
             /\ call.pxTLSContext = "block"
             /\ At(call.log, "memset") # {}
             /\ At(call.log, "set_pxSocketInterface") # {}
        /\ call.pxTLSContext = "NULL" => call.log = <<>>

(* -------------------------------- C23 ---------------------------------- *)
(* C23: as long as some context is Established or inside connect's         *)
(* handshake loop, the process-wide mutex hooks that connect installed     *)
(* with mbedtls_threading_set_alt are installed.                           *)
C23_HooksStayInstalled ==
    (\E c \in DOMAIN pc : Established(c) \/ pc[c] = "handshake") =>
        threadingAlt

(* -------------------------------- C24 ---------------------------------- *)

\* The operations that write the negotiation policy of a context.
ConfigOps ==
    {"ssl_config_defaults", "conf_authmode_none", "conf_rng",
     "conf_cert_profile", "conf_ca_chain", "conf_own_cert",
     "conf_alpn_protocols", "set_hostname", "conf_max_frag_len"}

(* C24: a call on a context whose handshake has begun (it is in the        *)
(* handshake loop or holds an open session) performs a configuration       *)
(* operation only after it released the engine resources: the handshake    *)
(* steps, send, recv and disconnect perform none, and connect performs     *)
(* them only after a tlsContextFree.                                       *)
C24_PolicyImmutableAfterHandshake ==
    /\ call.op \in {"handshake", "send", "recv"} =>
         LogOps(call.log) \cap ConfigOps = {}
    /\ (call.op = "connect" /\ call.hsCalls > 0) =>
         LogOps(call.log) \cap ConfigOps = {}
    /\ (call.op \in {"connect", "disconnect"} /\ call.prevEng.ssl = "open") =>
         \A i \in 1..Len(call.log) :
            call.log[i].op \in ConfigOps =>
                \E j \in At(call.log, "tlsContextFree") : j < i

(* -------------------------------- C25 ---------------------------------- *)
(* C25: every invocation of an adapter callback makes exactly one call of  *)
(* the socket interface, send for the send callback and recv for the recv  *)
(* callback, on the handle the context holds, whatever the socket answers; *)
(* a step that does not go through the adapter makes none.                 *)
C25_AdapterForwardsOnce ==
    IF call.io = "none"
    THEN call.sockCalls = <<>>
    ELSE /\ Len(call.sockCalls) = 1
         /\ call.sockCalls[1].op =
                (IF call.io = "send" THEN "sock_send" ELSE "sock_recv")
         /\ call.sockCalls[1].h = call.ioSock
         /\ call.sockCalls[1].ok <=> call.sockRet >= 0
         /\ call.ioSock # NULL
         /\ call.adapterRet = Adapter(call.io, [ret |-> call.sockRet,
                                                 errno |-> call.sockErrno])

\* The socket's recv was interrupted and the adapter answered after that one
\* call.
C25_Witness ==
    /\ call.io = "recv"
    /\ call.sockErrno = "EINTR"
    /\ Len(call.sockCalls) = 1
    /\ call.adapterRet = MBEDTLS_ERR_SSL_WANT_READ

(* -------------------------------- C26 ---------------------------------- *)

\* The credential operations in the order setCredentials performs them.
CredentialOps ==
    <<"x509_crt_parse_ca", "x509_crt_parse_client", "pk_parse_key",
      "conf_own_cert">>

(* C26: connect configures the credentials in the order trust anchor,      *)
(* client certificate, private key, own-certificate binding, each at most  *)
(* once and each only after the one before it succeeded; the CA chain is   *)
(* installed exactly when the trust anchor was parsed, right after it; and *)
(* when one of them fails no later one is performed, no optional setting   *)
(* is applied, the session is not set up, the handshake is not entered and *)
(* the status is InvalidCredentials.                                       *)
C26_CredentialOrderStopsAtFailure ==
    (call.op = "connect" /\ call.hsCalls = 0) =>
        LET log == call.log
        IN  /\ \A k \in 1..Len(CredentialOps) :
                 /\ Cardinality(At(log, CredentialOps[k])) <= 1
                 /\ \A i \in At(log, CredentialOps[k]) :
                      /\ k > 1 =>
                           \E j \in At(log, CredentialOps[k - 1]) :
                              j < i /\ log[j].ok
                      /\ ~log[i].ok =>
                           /\ \A j \in (i + 1)..Len(log) :
                                log[j].op \notin
                                    { CredentialOps[n] :
                                          n \in 1..Len(CredentialOps) }
                                    \cup OptionalOps
                                    \cup {"conf_ca_chain", "ssl_setup",
                                          "ssl_set_bio"}
                           /\ call.status = TLS_TRANSPORT_INVALID_CREDENTIALS
            /\ \A i \in At(log, "x509_crt_parse_ca") :
                 log[i].ok <=> (i < Len(log) /\ log[i + 1].op = "conf_ca_chain")
            /\ \A i \in At(log, "conf_ca_chain") :
                 i > 1 /\ log[i - 1] = Ev("x509_crt_parse_ca", TRUE, log[i].h)

\* The trust anchor and the client certificate were parsed, the private key
\* was not: connect returned InvalidCredentials.
C26_Witness ==
    /\ call.op = "connect"
    /\ call.status = TLS_TRANSPORT_INVALID_CREDENTIALS
    /\ \E i \in At(call.log, "pk_parse_key") : ~call.log[i].ok
    /\ \E i \in At(call.log, "x509_crt_parse_client") : call.log[i].ok
    /\ At(call.log, "conf_own_cert") = {}

(* -------------------------------- C27 ---------------------------------- *)
(* C27: no handle is passed to close a second time, and none that is not   *)
(* open; no call passes the null handle to close, and one call never       *)
(* closes the same handle twice; and once disconnect returned, every       *)
(* handle socket() ever gave the context is closed.                        *)
C27_EveryHandleClosedOnce ==
    /\ \A h \in Handles : sockState[h] # "closedTwice"
    /\ \A i \in At(call.log, "close") :
         /\ call.log[i].h # NULL
         /\ \A j \in At(call.log, "close") :
              call.log[j].h = call.log[i].h => j = i
    /\ call.op = "disconnect" =>
         \A h \in Handles :
            (sockState[h] # "free" /\ sockOpener[h] = call.ctx) =>
                sockState[h] = "closed"

\* The context opened two sockets, a reconnect closed the first and this
\* disconnect closed the second.
C27_Witness ==
    /\ call.op = "disconnect"
    /\ call.prevSock # NULL
    /\ \E i \in At(call.log, "close") : call.log[i].h = call.prevSock
    /\ \E h \in Handles :
         /\ h # call.prevSock
         /\ sockOpener[h] = call.ctx
         /\ sockState[h] = "closed"

(* -------------------------------- C28 ---------------------------------- *)

\* The operations of connect that initialise engine structures: initMbedtls
\* (entropy and random generator) and tlsContextInit (the other five).
EngineInitOps == {"threading_set_alt", "tlsContextInit"}

(* C28: a connect call on a context whose engine structures are            *)
(* initialised (not zeroed and not released) initialises them again only   *)
(* after it released them with tlsContextFree.                             *)
C28_NoInitWithoutRelease ==
    (call.op = "connect" /\ call.hsCalls = 0) =>
        \A i \in 1..Len(call.log) :
            ( /\ call.log[i].op \in EngineInitOps
              /\ \E f \in EngineFields :
                    call.prevEng[f] \notin {"zero", "freed"} ) =>
                \E j \in At(call.log, "tlsContextFree") : j < i

(* -------------------------------- C29 ---------------------------------- *)
(* C29: connect called with a NULL context returns InvalidParameter and    *)
(* reads no field through the NULL pointer; connect called with a NULL     *)
(* host or NULL credentials returns InvalidParameter without any call of   *)
(* the socket interface.                                                   *)
C29_NullArgumentsRejectedFirst ==
    /\ call.op = "connect_null" =>
         /\ call.status = TLS_TRANSPORT_INVALID_PARAMETER
         /\ call.log = <<>>
    /\ (call.op = "connect" /\ call.hsCalls = 0
            /\ (~call.host \/ call.creds.isNull)) =>
         /\ call.status = TLS_TRANSPORT_INVALID_PARAMETER
         /\ LogOps(call.log) \cap SocketOps = {}

C31_TransferLeavesLifecycle ==
    [][ call'.op \in {"send", "recv"} =>
          /\ UNCHANGED <<pxSocketContext, eng, pc, hsCalls, hsRetries,
                         sockState, sockOpener, threadingAlt>>
          /\ \A c \in DOMAIN pc :
                Established(c) =>
                    /\ pxSocketContext'[c] = pxSocketContext[c]
                    /\ sockState'[pxSocketContext'[c]] = "open"
                    /\ eng'[c].ssl = "open" ]_vars

\* A recv on an Established context failed with a negative error: the
\* context is still Established over its open socket.
C31_Witness ==
    /\ call.op = "recv"
    /\ call.io = "recv"
    /\ call.ret < 0
    /\ Established(call.ctx)
    /\ pxSocketContext[call.ctx] = call.ioSock
    /\ sockState[call.ioSock] = "open"

====
